---- MODULE Spec2Model ----
(***************************************************************************)
(* Model of the SPIFFE workload client of keycloak-poc                      *)
(* (keycloak-spiffe/workload/main.go).                                      *)
(*                                                                         *)
(* The program is one sequential run of main(): connect to the SPIRE       *)
(* Workload API, choose the audience, fetch a JWT-SVID, export it to the   *)
(* environment, hand it to Keycloak's token endpoint through curl, print   *)
(* the response.  The SPIRE agent, the operating system and Keycloak are   *)
(* the environment: what they answer is chosen nondeterministically.       *)
(***************************************************************************)
EXTENDS Integers, Sequences, FiniteSets, TLC

VARIABLES
    pc,           \* position of main(): the next statement to run
    now,          \* seconds elapsed since main() started
    envAudience,  \* value of the AUDIENCE environment variable ("" = unset or empty)
    source,       \* the JWTSource: "none" before line 28, "open" after it succeeded
    audience,     \* local variable audience (line 35)
    svid,         \* local variable svid (line 41), NoSvid until the fetch succeeded
    err,          \* local variable err, the last error value assigned
    envJwtSvid,   \* value of the JWT_SVID environment variable ("" = not set)
    output,       \* local variable output (line 65), what curl wrote
    stdout,       \* what the process has printed, in order
    requests,     \* the HTTP requests that reached Keycloak's token endpoint, in order
    fetches,      \* number of FetchJWTSVID calls made
    execs,        \* number of curl processes started
    exitCode      \* Running while main() runs, then the process exit status

vars == <<pc, now, envAudience, source, audience, svid, err, envJwtSvid,
          output, stdout, requests, fetches, execs, exitCode>>

----------------------------------------------------------------------------
(* Bounds of the model *)

\* number of clock steps the environment may take during one run
MaxTicks == 5
\* seconds that pass in one clock step
TickSeconds == 25

(* Program constants *)

\* context.WithTimeout(context.Background(), 100*time.Second)
TimeoutSeconds == 100

socketPath == "unix:///opt/spire/sockets/agent.sock"
DefaultAudience == "https://localhost.idyatech.fr:8443/auth/realms/spiffe"
TokenURL == "https://keycloak:8443/auth/realms/spiffe/protocol/openid-connect/token"
GrantType == "client_credentials"
ClientAssertionType == "urn:ietf:params:oauth:client-assertion-type:jwt-spiffe"

(* Values of the environment *)

\* values the AUDIENCE variable may have when the process starts
AudienceValues == {"", "https://kc.example.org/realms/spiffe", "https://other.example.org"}
\* serialized tokens the Workload API may hand out
Tokens == {"eyJ.svid1.sig", "eyJ.svid2.sig"}
\* HTTP status codes Keycloak may answer with
HttpStatuses == {200, 400, 401}

Running == -1
NoErr == "nil"
NoSvid == [token |-> "", aud |-> {}]
NoOutput == [started |-> FALSE, status |-> 0]

\* ctx.Err() != nil: the deadline set at line 19 has passed
CtxExpired(t) == t >= TimeoutSeconds

----------------------------------------------------------------------------
(* Pure parts of main() *)

\* ChooseAudience without the default of line 37
ChooseAudience_NoDefault(env) == env

\* lines 35-38: the audience requested from the Workload API
ChooseAudience(env) == IF env = "" THEN DefaultAudience ELSE env

\* lines 41-43: jwtsvid.Params{Audience: audience}, no ExtraAudiences
FetchParams(a) == [Audience |-> a, ExtraAudiences |-> <<>>]

\* the audiences a Params value asks for: Audience and the ExtraAudiences
RequestedAudiences(p) ==
    {p.Audience} \cup {p.ExtraAudiences[i] : i \in DOMAIN p.ExtraAudiences}

\* svid.Marshal(): the serialized token of the SVID
Marshal(s) == s.token

\* fmt.Sprintf("client_assertion=%s", v) and the literal -d arguments:
\* one form field, name=value
Field(n, v) == [name |-> n, value |-> v]

\* CurlCommand with the assertion type of RFC 7523 in place of the SPIFFE one
CurlCommand_BearerType(s) ==
    [ method  |-> "POST",
      headers |-> <<"Content-Type:application/x-www-form-urlencoded">>,
      data    |-> << Field("grant_type", GrantType),
                     Field("client_assertion_type",
                           "urn:ietf:params:oauth:client-assertion-type:jwt-bearer"),
                     Field("client_assertion", Marshal(s)) >>,
      url     |-> TokenURL ]

\* lines 53-62: the curl command line built from the fetched SVID
CurlCommand(s) ==
    [ method  |-> "POST",
      headers |-> <<"Content-Type:application/x-www-form-urlencoded">>,
      data    |-> << Field("grant_type", GrantType),
                     Field("client_assertion_type", ClientAssertionType),
                     Field("client_assertion", Marshal(s)) >>,
      url     |-> TokenURL ]

\* the value the token endpoint reads for form field n (the first one sent),
\* "" when the field is absent
RECURSIVE FormValue(_, _)
FormValue(data, n) ==
    IF data = <<>> THEN ""
    ELSE IF Head(data).name = n THEN Head(data).value
    ELSE FormValue(Tail(data), n)

\* log.Fatalf: print the message and exit with status 1
Fatal(msg, e) ==
    /\ stdout' = Append(stdout, [msg |-> msg, detail |-> e])
    /\ exitCode' = 1
    /\ pc' = "exited"

----------------------------------------------------------------------------
Init ==
    /\ pc = "connect"
    /\ now = 0
    /\ envAudience \in AudienceValues
    /\ source = "none"
    /\ audience = ""
    /\ svid = NoSvid
    /\ err = NoErr
    /\ envJwtSvid = ""
    /\ output = NoOutput
    /\ stdout = <<>>
    /\ requests = <<>>
    /\ fetches = 0
    /\ execs = 0
    /\ exitCode = Running

\* time passes while main() runs or blocks in a call
Tick ==
    /\ pc # "exited"
    /\ now < MaxTicks * TickSeconds
    /\ now' = now + TickSeconds
    /\ UNCHANGED <<pc, envAudience, source, audience, svid, err, envJwtSvid,
                   output, stdout, requests, fetches, execs, exitCode>>

\* lines 28-32: workloadapi.NewJWTSource(ctx, clientOptions)
Connect ==
    /\ pc = "connect"
    /\ \E e \in {NoErr, "unavailable", "deadline"} :
         /\ CtxExpired(now) => e = "deadline"
         /\ e = "deadline" => CtxExpired(now)
         /\ err' = e
         /\ IF e # NoErr
              THEN /\ Fatal("Impossible de se connecter a SPIRE", e)
                   /\ UNCHANGED source
              ELSE /\ source' = "open"
                   /\ pc' = "audience"
                   /\ UNCHANGED <<stdout, exitCode>>
    /\ UNCHANGED <<now, envAudience, audience, svid, envJwtSvid, output,
                   requests, fetches, execs>>

\* lines 35-38: audience := os.Getenv("AUDIENCE"), defaulted when empty
SetAudience ==
    /\ pc = "audience"
    /\ audience' = ChooseAudience(envAudience)
    /\ pc' = "fetch"
    /\ UNCHANGED <<now, envAudience, source, svid, err, envJwtSvid, output,
                   stdout, requests, fetches, execs, exitCode>>

\* lines 41-46: source.FetchJWTSVID(ctx, jwtsvid.Params{Audience: audience})
Fetch ==
    /\ pc = "fetch"
    /\ fetches' = fetches + 1
    /\ \E e \in {NoErr, "denied", "deadline"}, t \in Tokens :
         /\ CtxExpired(now) => e = "deadline"
         /\ e = "deadline" => CtxExpired(now)
         /\ err' = e
         /\ IF e # NoErr
              THEN /\ Fatal("Erreur lors de la recuperation du JWT-SVID", e)
                   /\ UNCHANGED svid
              ELSE /\ svid' = [token |-> t,
                               aud |-> RequestedAudiences(FetchParams(audience))]
                   /\ pc' = "export"
                   /\ UNCHANGED <<stdout, exitCode>>
    /\ UNCHANGED <<now, envAudience, source, audience, envJwtSvid, output,
                   requests, execs>>

\* lines 48-50: print the token, os.Setenv("JWT_SVID", svid.Marshal());
\* the error of Setenv is assigned to err and never looked at
Export ==
    /\ pc = "export"
    /\ stdout' = Append(stdout, [msg |-> "JWT-SVID recupere avec succes", detail |-> Marshal(svid)])
    /\ \E ok \in BOOLEAN :
         IF ok THEN /\ envJwtSvid' = Marshal(svid)
                    /\ err' = NoErr
               ELSE /\ err' = "setenv"
                    /\ UNCHANGED envJwtSvid
    /\ pc' = "exchange"
    /\ UNCHANGED <<now, envAudience, source, audience, svid, output,
                   requests, fetches, execs, exitCode>>

\* lines 53-65: exec.Command("curl", ...).CombinedOutput().
\*   started   : the curl binary could be started
\*   delivered : the request reached the token endpoint
\*   completed : curl got a response and exited with status 0
\* curl runs without -f, so an HTTP error status still ends in exit status 0.
Exchange ==
    /\ pc = "exchange"
    /\ \E started \in BOOLEAN, delivered \in BOOLEAN, completed \in BOOLEAN,
          status \in HttpStatuses :
         /\ delivered => started
         /\ completed => delivered
         /\ ~completed => status = 200
         /\ execs' = IF started THEN execs + 1 ELSE execs
         /\ requests' = IF delivered THEN Append(requests, CurlCommand(svid))
                                     ELSE requests
         /\ err' = IF completed THEN NoErr
                   ELSE IF started THEN "exit status" ELSE "exec"
         /\ output' = IF completed THEN [started |-> TRUE, status |-> status]
                      ELSE IF started THEN [started |-> TRUE, status |-> 0]
                      ELSE NoOutput
    /\ pc' = "report"
    /\ UNCHANGED <<now, envAudience, source, audience, svid, envJwtSvid,
                   stdout, fetches, exitCode>>

\* Report treating an HTTP error status like a curl error (as curl -f would)
Report_FailOnHttpError ==
    /\ pc = "report"
    /\ IF err # NoErr \/ output.status >= 400
         THEN Fatal("Erreur lors de l'appel a Keycloak", err)
         ELSE /\ stdout' = Append(stdout, [msg |-> "Reponse de Keycloak", detail |-> output])
              /\ exitCode' = 0
              /\ pc' = "exited"
    /\ UNCHANGED <<now, envAudience, source, audience, svid, err, envJwtSvid,
                   output, requests, fetches, execs>>

\* lines 66-70: log.Fatalf on a curl error, else print the response and return
Report ==
    /\ pc = "report"
    /\ IF err # NoErr
         THEN Fatal("Erreur lors de l'appel a Keycloak", err)
         ELSE /\ stdout' = Append(stdout, [msg |-> "Reponse de Keycloak", detail |-> output])
              /\ exitCode' = 0
              /\ pc' = "exited"
    /\ UNCHANGED <<now, envAudience, source, audience, svid, err, envJwtSvid,
                   output, requests, fetches, execs>>

Next ==
    \/ Tick
    \/ Connect
    \/ SetAudience
    \/ Fetch
    \/ Export
    \/ Exchange
    \/ Report

Spec == Init /\ [][Next]_vars

----------------------------------------------------------------------------
(* Properties *)

\* the run printed the failure message of the connection to the Workload API
ConnectFailed ==
    \E i \in DOMAIN stdout : stdout[i].msg = "Impossible de se connecter a SPIRE"

\* the run printed the failure message of the JWT-SVID fetch
FetchFailed ==
    \E i \in DOMAIN stdout : stdout[i].msg = "Erreur lors de la recuperation du JWT-SVID"

\* C10: a request reaches Keycloak only after FetchJWTSVID has succeeded in
\* this run, and it carries grant_type=client_credentials, the fixed
\* client_assertion_type urn:ietf:params:oauth:client-assertion-type:jwt-spiffe
\* and a client_assertion equal to the JWT-SVID fetched in this run; a run in
\* which the connection to the Workload API or the fetch failed has exited
\* with a failure status and has sent nothing to Keycloak.
C10_ExchangeOnlyAfterFetch ==
    /\ \A i \in DOMAIN requests :
          /\ fetches >= 1
          /\ svid # NoSvid
          /\ svid.token \in Tokens
          /\ ~FetchFailed
          /\ requests[i].url = TokenURL
          /\ FormValue(requests[i].data, "grant_type") = "client_credentials"
          /\ FormValue(requests[i].data, "client_assertion_type")
                = "urn:ietf:params:oauth:client-assertion-type:jwt-spiffe"
          /\ FormValue(requests[i].data, "client_assertion") = svid.token
    /\ (ConnectFailed \/ FetchFailed) =>
          /\ pc = "exited"
          /\ exitCode = 1
          /\ requests = <<>>
          /\ execs = 0

\* C10 witness: a request carrying the fetched JWT-SVID has reached Keycloak
C10_Witness ==
    /\ Len(requests) = 1
    /\ svid # NoSvid
    /\ FormValue(requests[1].data, "client_assertion") = svid.token

\* C14: every network-facing call of the workload carries the deadline of
\* line 19: a connection, a fetch or a token exchange that runs once the
\* deadline has expired ends in an error, which main() turns into a failure
\* exit (a deadline error for the two Workload API calls), and contacts nobody.
C14_EveryCallCarriesDeadline ==
    [][ /\ (pc = "connect" /\ pc' # "connect" /\ CtxExpired(now)) =>
             (err' = "deadline" /\ pc' = "exited" /\ exitCode' = 1)
        /\ (pc = "fetch" /\ pc' # "fetch" /\ CtxExpired(now)) =>
             (err' = "deadline" /\ pc' = "exited" /\ exitCode' = 1)
        /\ (pc = "exchange" /\ pc' # "exchange" /\ CtxExpired(now)) =>
             (err' # NoErr /\ requests' = requests) ]_vars

\* C15: the audience requested for the JWT-SVID is the value of AUDIENCE when
\* that variable is set and non-empty and the fixed default
\* https://localhost.idyatech.fr:8443/auth/realms/spiffe otherwise; exactly
\* one audience is requested, and the document handed to Keycloak is the one
\* fetched for that audience.
C15_RequestedAudience ==
    LET expected == IF envAudience # "" THEN envAudience
                    ELSE "https://localhost.idyatech.fr:8443/auth/realms/spiffe"
    IN  /\ fetches >= 1 => audience = expected
        /\ svid # NoSvid =>
             /\ svid.aud = {expected}
             /\ Cardinality(svid.aud) = 1
        /\ \A i \in DOMAIN requests :
             /\ svid.aud = {expected}
             /\ FormValue(requests[i].data, "client_assertion") = svid.token

\* C15 witness: with AUDIENCE unset, a document fetched for the default
\* audience has been handed to Keycloak
C15_Witness ==
    /\ envAudience = ""
    /\ Len(requests) = 1
    /\ svid.aud = {DefaultAudience}
    /\ FormValue(requests[1].data, "client_assertion") = svid.token

\* the last thing the run printed is Keycloak's response
ResponsePrinted ==
    /\ stdout # <<>>
    /\ stdout[Len(stdout)].msg = "Reponse de Keycloak"
    /\ stdout[Len(stdout)].detail = output

\* C16: a finished run has failed exactly when the connection to the
\* Workload API failed, the fetch of the JWT-SVID failed, or curl itself
\* failed; a run in which Keycloak answered with an HTTP error status, or in
\* which exporting JWT_SVID failed, while curl completed, has printed
\* Keycloak's response and ended in success; no run makes more than one fetch
\* or more than one exchange.
C16_FailureExactlyOnCallErrors ==
    /\ fetches <= 1
    /\ execs <= 1
    /\ Len(requests) <= 1
    /\ pc = "exited" =>
         /\ exitCode \in {0, 1}
         /\ exitCode = 1 <=>
              \/ source = "none"
              \/ svid = NoSvid
              \/ output.status = 0
         /\ exitCode = 0 => ResponsePrinted
         /\ output.status \in {400, 401} =>
              (exitCode = 0 /\ ResponsePrinted)
         /\ (svid # NoSvid /\ envJwtSvid = "" /\ output.status # 0) =>
              (exitCode = 0 /\ ResponsePrinted)

\* C16 witness: a run in which exporting JWT_SVID failed and Keycloak rejected
\* the assertion with HTTP 401 has ended in success
C16_Witness ==
    /\ pc = "exited"
    /\ exitCode = 0
    /\ svid # NoSvid
    /\ envJwtSvid = ""
    /\ output.status = 401
    /\ fetches = 1
    /\ execs = 1

====
